---- MODULE Spec2Model ----
(***************************************************************************)
(* A model of shared/ebm_native/EbmInternal.h: the overflow predicates,    *)
(* the EbmMalloc helpers, IsNumberConvertable, the learning type           *)
(* predicates, CountBitsRequired, the bit-pack progression and the string  *)
(* functions.                                                              *)
(*                                                                         *)
(* The header is a collection of functions.  Each one is an operator here, *)
(* and each specification below calls them on inputs drawn from bounded    *)
(* sets and records the call (op, args, ret and what the call did on the   *)
(* way) in the state.                                                      *)
(*                                                                         *)
(* size_t arithmetic is modelled on a word of WordBits bits: every sum,    *)
(* difference and product the code computes is reduced modulo 2^WordBits.  *)
(* The bit-pack geometry is modelled on the real storage widths (the       *)
(* number of bits of size_t on the platform), which are small numbers.     *)
(***************************************************************************)
EXTENDS Integers, Sequences, FiniteSets

VARIABLES
  k_cBitsForStorageType,  \* EbmInternal.h:431, fixed by the platform
  op,                     \* the function called last ("none" before any call)
  args,                   \* its arguments
  ret,                    \* what it returned
  inter,                  \* exact values of the intermediate size_t expressions it evaluated
  divisors,               \* the divisors of the divisions it evaluated
  requested,              \* the byte counts it handed to malloc
  bitPackCur,             \* the bit pack the GetNextBitPack chain stands at
  chain,                  \* the bit packs the chain has visited
  cbrIn,                  \* CountBitsRequired: the argument of the outermost call
  cbrCur,                 \* CountBitsRequired: the argument of the innermost call
  cbrDepth,               \* CountBitsRequired: the recursive calls that have not returned
  cbrCount,               \* CountBitsRequired: the number of halvings so far
  cbrRet,                 \* CountBitsRequired: the value the last return gave
  cbrPc,                  \* CountBitsRequired: "idle", "descend", "unwind" or "done"
  str                     \* the string function that runs: its buffers, positions and result

vars == <<k_cBitsForStorageType, op, args, ret, inter, divisors, requested,
          bitPackCur, chain, cbrIn, cbrCur, cbrDepth, cbrCount, cbrRet, cbrPc,
          str>>

callVars == <<op, args, ret, inter, divisors, requested>>
chainVars == <<bitPackCur, chain>>
cbrVars == <<cbrIn, cbrCur, cbrDepth, cbrCount, cbrRet, cbrPc>>
strVars == <<str>>

----------------------------------------------------------------------------
(* Bounds of the model *)

\* the number of bits of the modelled size_t (64 or 32 in a real build)
WordBits == 4

RECURSIVE Pow2(_)
Pow2(n) == IF n <= 0 THEN 1 ELSE 2 * Pow2(n - 1)

\* size_t arithmetic wraps modulo 2^WordBits
SizeModulus == Pow2(WordBits)

\* std::numeric_limits<size_t>::max()
SizeMax == SizeModulus - 1

SizeT == 0..SizeMax

Wrap(x) == x % SizeModulus

----------------------------------------------------------------------------
(* IsMultiplyError and IsAddError, EbmInternal.h:486-501 *)

\* the evaluation without the test for zero
IsMultiplyErrorEvalNoZeroTest(num1, num2) ==
  LET sub == SizeMax - num1
      add == Wrap(sub) + 1
      quot == IF num1 = 0 THEN 0 ELSE Wrap(add) \div num1
  IN  [result |-> quot < num2, inter |-> <<sub, add>>, divisors |-> <<num1>>]

\* 0 != num1 && ((max - num1 + 1) / num1 < num2), with what the evaluation
\* computed on the way: inter holds the exact (unwrapped) value of every
\* intermediate size_t expression, divisors the divisor of every division
\* evaluated.  && does not evaluate its right operand when num1 is 0.
IsMultiplyErrorEval(num1, num2) ==
  IF 0 = num1
    THEN [result |-> FALSE, inter |-> <<>>, divisors |-> <<>>]
    ELSE LET sub == SizeMax - num1
             add == Wrap(sub) + 1
         IN  [result |-> (Wrap(add) \div num1) < num2,
              inter |-> <<sub, add>>,
              divisors |-> <<num1>>]

IsMultiplyError(num1, num2) == IsMultiplyErrorEval(num1, num2).result

\* the comparison with <= in place of <
IsAddErrorNotStrict(num1, num2) == Wrap(num1 + num2) <= num1

\* num1 + num2 < num1, the sum wrapped
IsAddError(num1, num2) == Wrap(num1 + num2) < num1

----------------------------------------------------------------------------
(* malloc and EbmMalloc, EbmInternal.h:516-554 *)

\* the null pointer, and a block of cBytes bytes
NullBlock == [null |-> TRUE, cBytes |-> 0]
Block(cBytes) == [null |-> FALSE, cBytes |-> cBytes]

\* malloc(cBytes) of the C library when the allocator can still give out
\* cBytesAvailable bytes.  A request of zero bytes returns the null pointer or
\* a block, as the implementation chooses (bZeroIsNull).
Malloc(cBytes, cBytesAvailable, bZeroIsNull) ==
  IF cBytes = 0
    THEN IF bZeroIsNull THEN NullBlock ELSE Block(0)
    ELSE IF cBytes <= cBytesAvailable THEN Block(cBytes) ELSE NullBlock

\* what a call of EbmMalloc leaves behind: the pointer returned and the byte
\* counts handed to malloc
NoMalloc == [ptr |-> NullBlock, requested |-> <<>>]
DidMalloc(cBytes, cBytesAvailable, bZeroIsNull) ==
  [ptr |-> Malloc(cBytes, cBytesAvailable, bZeroIsNull), requested |-> <<cBytes>>]

\* the allocation without the overflow test
EbmMallocUnchecked(cItems, cBytesPerItem, cBytesAvailable, bZeroIsNull) ==
  DidMalloc(Wrap(cItems * cBytesPerItem), cBytesAvailable, bZeroIsNull)

\* EbmMalloc<T>(cItems, cBytesPerItem), lines 544-554
EbmMalloc(cItems, cBytesPerItem, cBytesAvailable, bZeroIsNull) ==
  IF IsMultiplyError(cItems, cBytesPerItem)
    THEN NoMalloc
    ELSE DidMalloc(Wrap(cItems * cBytesPerItem), cBytesAvailable, bZeroIsNull)

\* sizeof(T) of the item types EbmMalloc<T>(cItems) is instantiated with
\* (void counts as char, line 524)
SizeofT == {1, 2, 4, 8}

\* EbmMalloc<T>(cItems), lines 522-543, with cBytesPerItem = sizeof(T)
EbmMallocTyped(cItems, cBytesPerItem, cBytesAvailable, bZeroIsNull) ==
  IF 1 = cBytesPerItem
    THEN DidMalloc(cItems, cBytesAvailable, bZeroIsNull)
    ELSE IF IsMultiplyError(cItems, cBytesPerItem)
           THEN NoMalloc
           ELSE DidMalloc(Wrap(cItems * cBytesPerItem), cBytesAvailable, bZeroIsNull)

----------------------------------------------------------------------------
(* IsNumberConvertable, EbmInternal.h:249-311 *)

\* The bits of the narrowest integer type.  The four integer types of one
\* signedness have ByteBits, ByteBits + 1, ByteBits + 2 and ByteBits + 3
\* bits (8, 16, 32 and 64 in a real build): as in a real build a wider type
\* holds every value of a narrower type of the same signedness, and a wider
\* signed type holds every value of a narrower unsigned type.
ByteBits == 2

\* an integer type: its signedness and its conversion rank (0 for the 8 bit
\* types up to 3 for the 64 bit types)
IntegerTypes == [signed : BOOLEAN, rank : 0..3]

\* int, the type of the literal 0 and the target of the integer promotions
IntType == [signed |-> TRUE, rank |-> 2]

TypeBits(T) == ByteBits + T.rank

\* std::numeric_limits<T>::lowest() and std::numeric_limits<T>::max()
NumericLimitsLowest(T) == IF T.signed THEN 0 - Pow2(TypeBits(T) - 1) ELSE 0
NumericLimitsMax(T) ==
  IF T.signed THEN Pow2(TypeBits(T) - 1) - 1 ELSE Pow2(TypeBits(T)) - 1

ValuesOf(T) == NumericLimitsLowest(T)..NumericLimitsMax(T)

\* integer promotion: a type of lower rank than int becomes int
Promote(T) == IF T.rank < IntType.rank THEN IntType ELSE T

\* the usual arithmetic conversions: the type two promoted operands are
\* compared in
CommonType(A, B) ==
  IF A.signed = B.signed
    THEN IF A.rank >= B.rank THEN A ELSE B
    ELSE LET U == IF A.signed THEN B ELSE A
             S == IF A.signed THEN A ELSE B
         IN  IF U.rank >= S.rank
               THEN U
               ELSE IF NumericLimitsMax(U) <= NumericLimitsMax(S)
                      THEN S
                      ELSE [signed |-> FALSE, rank |-> S.rank]

\* the value of v after conversion to T: kept when T holds it, reduced
\* modulo 2^bits otherwise
ConvertTo(T, v) ==
  IF v \in ValuesOf(T)
    THEN v
    ELSE ((v - NumericLimitsLowest(T)) % Pow2(TypeBits(T))) + NumericLimitsLowest(T)

\* a <= b for a of type TA and b of type TB, as the language evaluates it
LessEq(TA, a, TB, b) ==
  LET C == CommonType(Promote(TA), Promote(TB))
  IN  ConvertTo(C, a) <= ConvertTo(C, b)

\* the conversion to an unsigned type without the test 0 <= number
IsNumberConvertableNoZeroTest(TTo, TFrom, number) ==
  IF TTo.signed
    THEN IF TFrom.signed
           THEN /\ LessEq(TTo, NumericLimitsLowest(TTo), TFrom, number)
                /\ LessEq(TFrom, number, TTo, NumericLimitsMax(TTo))
           ELSE LessEq(TFrom, number, TTo, NumericLimitsMax(TTo))
    ELSE LessEq(TFrom, number, TTo, NumericLimitsMax(TTo))

\* the return expression of lines 276-279
IsNumberConvertable(TTo, TFrom, number) ==
  IF TTo.signed
    THEN IF TFrom.signed
           THEN /\ LessEq(TTo, NumericLimitsLowest(TTo), TFrom, number)
                /\ LessEq(TFrom, number, TTo, NumericLimitsMax(TTo))
           ELSE LessEq(TFrom, number, TTo, NumericLimitsMax(TTo))
    ELSE IF TFrom.signed
           THEN /\ LessEq(IntType, 0, TFrom, number)
                /\ LessEq(TFrom, number, TTo, NumericLimitsMax(TTo))
           ELSE LessEq(TFrom, number, TTo, NumericLimitsMax(TTo))

----------------------------------------------------------------------------
(* CountBitsRequired and the widths derived from it, EbmInternal.h:395-431 *)

\* T { 0 } == maxValue ? 0 : 1 + CountBitsRequired<T>(maxValue / T { 2 })
RECURSIVE CountBitsRequired(_)
CountBitsRequired(maxValue) ==
  IF 0 = maxValue THEN 0 ELSE 1 + CountBitsRequired(maxValue \div 2)

\* The values of a 32 or 64 bit size_t are written as their binary digits,
\* lowest digit first: std::numeric_limits<size_t>::max() of a size_t of
\* cBits bits is cBits ones.
NumericLimitsMaxWide(cBits) == [i \in 1..cBits |-> 1]

\* T { 0 } == maxValue on the binary digits
IsZeroWide(maxValue) == \A i \in 1..Len(maxValue) : maxValue[i] = 0

\* maxValue / T { 2 } on the binary digits: the lowest digit is dropped and
\* a zero enters at the top
HalfWide(maxValue) ==
  IF Len(maxValue) = 0 THEN maxValue ELSE Tail(maxValue) \o <<0>>

\* the recursion that stops one halving early
RECURSIVE CountBitsRequiredWideStopsEarly(_)
CountBitsRequiredWideStopsEarly(maxValue) ==
  IF IsZeroWide(HalfWide(maxValue))
    THEN 0
    ELSE 1 + CountBitsRequiredWideStopsEarly(HalfWide(maxValue))

\* CountBitsRequired on the binary digits
RECURSIVE CountBitsRequiredWide(_)
CountBitsRequiredWide(maxValue) ==
  IF IsZeroWide(maxValue) THEN 0 ELSE 1 + CountBitsRequiredWide(HalfWide(maxValue))

\* CountBitsRequiredPositiveMax<T>() for an unsigned T of cBits bits
CountBitsRequiredPositiveMax(cBits) ==
  CountBitsRequiredWide(NumericLimitsMaxWide(cBits))

\* the number of bits of StorageDataType (size_t, line 333) on the platforms
\* the library is built for
StorageTypeBits == {16, 32, 64}

----------------------------------------------------------------------------
(* The bit-pack progression, EbmInternal.h:433-479 *)

k_cItemsPerBitPackNone == -1
k_cItemsPerBitPackDynamic2 == 0
k_cItemsPerBitPackMax2 == k_cBitsForStorageType
k_cItemsPerBitPackMin2 == 1

\* the bits of one item when cItemsBitPacked items share a storage word
GetCountBitsPlusOne(cItemsBitPacked) ==
  k_cBitsForStorageType \div cItemsBitPacked + 1

GetCountBits(cItemsBitPacked) == k_cBitsForStorageType \div cItemsBitPacked

\* the step without the + 1 in the divisor
GetNextBitPackNoPlusOne(cItemsBitPackedPrev) ==
  IF k_cItemsPerBitPackMin2 = cItemsBitPackedPrev
    THEN k_cItemsPerBitPackDynamic2
    ELSE k_cBitsForStorageType \div (k_cBitsForStorageType \div cItemsBitPackedPrev)

\* the step that counts down by one
GetNextBitPackMinusOne(cItemsBitPackedPrev) ==
  IF k_cItemsPerBitPackMin2 = cItemsBitPackedPrev
    THEN k_cItemsPerBitPackDynamic2
    ELSE cItemsBitPackedPrev - 1

\* the next smaller bit pack, lines 470-479
GetNextBitPack(cItemsBitPackedPrev) ==
  IF k_cItemsPerBitPackMin2 = cItemsBitPackedPrev
    THEN k_cItemsPerBitPackDynamic2
    ELSE k_cBitsForStorageType \div ((k_cBitsForStorageType \div cItemsBitPackedPrev) + 1)

\* k_cBitsForSizeT (line 405) is the same expression on the same type as
\* k_cBitsForStorageType (line 431, StorageDataType is size_t)
k_cBitsForSizeT == k_cBitsForStorageType
k_cDimensionsMax == k_cBitsForSizeT - 1
k_cCompilerOptimizedCountDimensionsMax == 2

\* the constants of the stepper kept under TODO_remove_this, lines 438-440
k_cItemsPerBitPackDynamic == 0
k_cItemsPerBitPackMax == 0
k_cItemsPerBitPackMin == 0

\* the stepper without the test for k_cItemsPerBitPackMin
GetNextCountItemsBitPackedEvalNoMinTest(cItemsBitPackedPrev) ==
  [result |-> IF cItemsBitPackedPrev = 0
                THEN 0
                ELSE k_cBitsForStorageType \div ((k_cBitsForStorageType \div cItemsBitPackedPrev) + 1),
   divisors |-> <<cItemsBitPackedPrev>>]

\* GetNextCountItemsBitPacked, lines 441-446, with the divisors of the
\* divisions it evaluates
GetNextCountItemsBitPackedEval(cItemsBitPackedPrev) ==
  IF k_cItemsPerBitPackMin = cItemsBitPackedPrev
    THEN [result |-> k_cItemsPerBitPackDynamic, divisors |-> <<>>]
    ELSE [result |-> k_cBitsForStorageType
                       \div ((k_cBitsForStorageType \div cItemsBitPackedPrev) + 1),
          divisors |-> <<cItemsBitPackedPrev,
                         (k_cBitsForStorageType \div cItemsBitPackedPrev) + 1>>]

GetNextCountItemsBitPacked(cItemsBitPackedPrev) ==
  GetNextCountItemsBitPackedEval(cItemsBitPackedPrev).result

----------------------------------------------------------------------------
(* The string functions, EbmInternal.h:556-627 *)

\* no string function has been called
StrIdle ==
  [pc |-> "idle", fn |-> "none", sMain |-> <<0>>, sLabel |-> <<0>>,
   iMain |-> 0, iLabel |-> 0, mainChar |-> 0, labelChar |-> 0,
   ret |-> 0, readMain |-> 0, readLabel |-> 0]

----------------------------------------------------------------------------
(* The initial state: the platform fixes the width of the storage type, no  *)
(* function has been called, the chain stands at its first bit pack.        *)

Init ==
  /\ k_cBitsForStorageType \in {CountBitsRequiredPositiveMax(cBits) : cBits \in StorageTypeBits}
  /\ op = "none"
  /\ args = <<>>
  /\ ret = 0
  /\ inter = <<>>
  /\ divisors = <<>>
  /\ requested = <<>>
  /\ bitPackCur = k_cItemsPerBitPackMax2
  /\ chain = <<k_cItemsPerBitPackMax2>>
  /\ cbrIn = 0
  /\ cbrCur = 0
  /\ cbrDepth = 0
  /\ cbrCount = 0
  /\ cbrRet = 0
  /\ cbrPc = "idle"
  /\ str = StrIdle

----------------------------------------------------------------------------
(* Calls of the overflow predicates and of the allocation helpers.  The     *)
(* functions keep no state between calls, so a behaviour holds one call.    *)

CallIsMultiplyError ==
  /\ op = "none"
  /\ \E num1 \in SizeT, num2 \in SizeT :
    LET e == IsMultiplyErrorEval(num1, num2)
    IN  /\ op' = "IsMultiplyError"
        /\ args' = <<num1, num2>>
        /\ ret' = IsMultiplyError(num1, num2)
        /\ inter' = e.inter
        /\ divisors' = e.divisors
        /\ requested' = <<>>
        /\ UNCHANGED <<k_cBitsForStorageType, chainVars, cbrVars, strVars>>

CallIsAddError ==
  /\ op = "none"
  /\ \E num1 \in SizeT, num2 \in SizeT :
    /\ op' = "IsAddError"
    /\ args' = <<num1, num2>>
    /\ ret' = IsAddError(num1, num2)
    /\ inter' = <<num1 + num2>>
    /\ divisors' = <<>>
    /\ requested' = <<>>
    /\ UNCHANGED <<k_cBitsForStorageType, chainVars, cbrVars, strVars>>

\* the memory the allocator can still give out when EbmMalloc is called:
\* none, half of the address space, all of it
BytesAvailable == {0, SizeMax \div 2, SizeMax}

CallEbmMalloc ==
  /\ op = "none"
  /\ \E cItems \in SizeT, cBytesPerItem \in SizeT,
     cBytesAvailable \in BytesAvailable, bZeroIsNull \in BOOLEAN :
    LET m == EbmMalloc(cItems, cBytesPerItem, cBytesAvailable, bZeroIsNull)
    IN  /\ op' = "EbmMalloc"
        /\ args' = <<cItems, cBytesPerItem, cBytesAvailable>>
        /\ ret' = m.ptr
        /\ requested' = m.requested
        /\ inter' = <<>>
        /\ divisors' = <<>>
        /\ UNCHANGED <<k_cBitsForStorageType, chainVars, cbrVars, strVars>>

CallEbmMallocTyped ==
  /\ op = "none"
  /\ \E cItems \in SizeT, cBytesPerItem \in SizeofT,
     cBytesAvailable \in BytesAvailable, bZeroIsNull \in BOOLEAN :
    LET m == EbmMallocTyped(cItems, cBytesPerItem, cBytesAvailable, bZeroIsNull)
    IN  /\ op' = "EbmMallocTyped"
        /\ args' = <<cItems, cBytesPerItem, cBytesAvailable>>
        /\ ret' = m.ptr
        /\ requested' = m.requested
        /\ inter' = <<>>
        /\ divisors' = <<>>
        /\ UNCHANGED <<k_cBitsForStorageType, chainVars, cbrVars, strVars>>

NextArith ==
  \/ CallIsMultiplyError
  \/ CallIsAddError
  \/ CallEbmMalloc
  \/ CallEbmMallocTyped

SpecArith == Init /\ [][NextArith]_vars

----------------------------------------------------------------------------
(* Claims about the overflow predicates and the allocation helpers,         *)
(* checked under SpecArith                                                  *)

\* the exact product and sum of the arguments of the recorded call
ExactProduct == args[1] * args[2]
ExactSum == args[1] + args[2]

\* C1: IsMultiplyError(a, b) is true if and only if the exact product a*b is
\* greater than the maximum size_t; in particular it is false for every pair
\* whose exact product is at most that maximum.
C1_MultiplyErrorIffProductExceedsMax ==
  op = "IsMultiplyError" => (ret <=> ExactProduct > SizeMax)

\* C2: IsAddError(a, b) is true if and only if the exact sum a+b is greater
\* than the maximum size_t, the check being (a+b mod 2^w) < a.
C2_AddErrorIffSumExceedsMax ==
  op = "IsAddError" =>
    /\ ret <=> ExactSum > SizeMax
    /\ ret <=> (ExactSum % SizeModulus) < args[1]

\* a call of IsAddError whose sum wraps, and which reports it
C2_Witness ==
  /\ op = "IsAddError"
  /\ args = <<SizeMax, 1>>
  /\ ret = TRUE

\* the calls of EbmMalloc that test for overflow before they allocate
IsCheckedMalloc ==
  \/ op = "EbmMalloc"
  \/ op = "EbmMallocTyped" /\ args[2] > 1

\* C3: when the exact product cItems*cBytesPerItem exceeds the maximum
\* size_t, EbmMalloc(cItems, cBytesPerItem) and EbmMalloc<T>(cItems) with
\* sizeof(T) > 1 return null without calling malloc, so malloc is never asked
\* for a wrapped byte count.
C3_OverflowReturnsNullWithoutMalloc ==
  IsCheckedMalloc =>
    /\ ExactProduct > SizeMax => ret = NullBlock /\ requested = <<>>
    /\ \A i \in 1..Len(requested) : requested[i] = ExactProduct

\* an overflowing request refused although the allocator has memory
C3_Witness ==
  /\ op = "EbmMalloc"
  /\ args = <<SizeMax, 2, SizeMax>>
  /\ ret = NullBlock
  /\ requested = <<>>

\* C4: when the exact product does not exceed the maximum size_t and the
\* allocator has that much memory, EbmMalloc(count, bytesPerItem) asks malloc
\* for exactly count*bytesPerItem bytes and returns that non-null block; null
\* is returned only on overflow or when the allocator is exhausted.
C4_FittingProductIsAllocated ==
  op = "EbmMalloc" =>
    /\ (ExactProduct <= SizeMax /\ ExactProduct <= args[3]) =>
         requested = <<ExactProduct>> /\ ret = Block(ExactProduct)
    /\ ret.null => (ExactProduct > SizeMax \/ ExactProduct > args[3])

\* C6: evaluating IsMultiplyError(a, b) never divides by zero and never
\* overflows in an intermediate step: for a = 0 the result is false and no
\* division is evaluated, for a >= 1 the value max - a + 1 stays in [0, max].
C6_MultiplyErrorEvaluatesSafely ==
  op = "IsMultiplyError" =>
    /\ \A i \in 1..Len(divisors) : divisors[i] # 0
    /\ \A i \in 1..Len(inter) : inter[i] \in 0..SizeMax
    /\ args[1] = 0 => ret = FALSE /\ divisors = <<>>
    /\ args[1] >= 1 =>
         /\ divisors = <<args[1]>>
         /\ inter = <<SizeMax - args[1], SizeMax - args[1] + 1>>

\* a call with a = 0 that evaluated no division
C6_Witness ==
  /\ op = "IsMultiplyError"
  /\ args = <<0, SizeMax>>
  /\ ret = FALSE
  /\ divisors = <<>>

----------------------------------------------------------------------------
(* Calls of IsNumberConvertable *)

CallIsNumberConvertable ==
  /\ op = "none"
  /\ \E TTo \in IntegerTypes, TFrom \in IntegerTypes :
       \E number \in ValuesOf(TFrom) :
         /\ op' = "IsNumberConvertable"
         /\ args' = <<TTo, TFrom, number>>
         /\ ret' = IsNumberConvertable(TTo, TFrom, number)
         /\ UNCHANGED <<inter, divisors, requested>>
         /\ UNCHANGED <<k_cBitsForStorageType, chainVars, cbrVars, strVars>>

NextConvert == CallIsNumberConvertable

SpecConvert == Init /\ [][NextConvert]_vars

\* C5: for every pair of integer types (To, From) and every value x of From,
\* IsNumberConvertable<To, From>(x), evaluated under the integer promotions
\* and the usual arithmetic conversions, is true if and only if
\* min(To) <= x <= max(To) as mathematical integers; every negative x fails
\* the conversion to an unsigned To, and for an unsigned From the answer is
\* the upper-bound comparison alone.
C5_ConvertableIffInRange ==
  op = "IsNumberConvertable" =>
    LET TTo == args[1]
        TFrom == args[2]
        x == args[3]
    IN  /\ ret <=> (NumericLimitsLowest(TTo) <= x /\ x <= NumericLimitsMax(TTo))
        /\ (x < 0 /\ ~TTo.signed) => ~ret
        /\ ~TFrom.signed => (ret <=> x <= NumericLimitsMax(TTo))

\* -1 of the widest signed type is refused for the widest unsigned type, in
\* which the comparison -1 <= max alone would be made unsigned and succeed
C5_Witness ==
  /\ op = "IsNumberConvertable"
  /\ args = <<[signed |-> FALSE, rank |-> 3], [signed |-> TRUE, rank |-> 3], 0 - 1>>
  /\ ret = FALSE

----------------------------------------------------------------------------
(* CountBitsRequired as the recursion runs: every call with a non-zero      *)
(* argument calls itself on half of it, the call with zero returns 0, and   *)
(* every call that returns adds 1 to what its callee returned.              *)

\* the largest argument of the calls modelled
MaxValue == 40

CountBitsRequiredCall ==
  /\ cbrPc = "idle"
  /\ \E maxValue \in 0..MaxValue :
       /\ cbrIn' = maxValue
       /\ cbrCur' = maxValue
  /\ cbrDepth' = 0
  /\ cbrCount' = 0
  /\ cbrRet' = 0
  /\ cbrPc' = "descend"
  /\ UNCHANGED <<k_cBitsForStorageType, callVars, chainVars, strVars>>

\* the recursion with the base case at maxValue <= 1
CountBitsRequiredDescendBaseAtOne ==
  /\ cbrPc = "descend"
  /\ IF cbrCur <= 1
       THEN /\ cbrRet' = 0
            /\ cbrPc' = IF cbrDepth = 0 THEN "done" ELSE "unwind"
            /\ UNCHANGED <<cbrCur, cbrDepth, cbrCount>>
       ELSE /\ cbrCur' = cbrCur \div 2
            /\ cbrDepth' = cbrDepth + 1
            /\ cbrCount' = cbrCount + 1
            /\ UNCHANGED <<cbrRet, cbrPc>>
  /\ UNCHANGED <<cbrIn, k_cBitsForStorageType, callVars, chainVars, strVars>>

\* T { 0 } == maxValue ? size_t { 0 } : ... CountBitsRequired<T>(maxValue / T { 2 })
CountBitsRequiredDescend ==
  /\ cbrPc = "descend"
  /\ IF 0 = cbrCur
       THEN /\ cbrRet' = 0
            /\ cbrPc' = IF cbrDepth = 0 THEN "done" ELSE "unwind"
            /\ UNCHANGED <<cbrCur, cbrDepth, cbrCount>>
       ELSE /\ cbrCur' = cbrCur \div 2
            /\ cbrDepth' = cbrDepth + 1
            /\ cbrCount' = cbrCount + 1
            /\ UNCHANGED <<cbrRet, cbrPc>>
  /\ UNCHANGED <<cbrIn, k_cBitsForStorageType, callVars, chainVars, strVars>>

\* size_t { 1 } + what the recursive call returned
CountBitsRequiredReturn ==
  /\ cbrPc = "unwind"
  /\ cbrRet' = 1 + cbrRet
  /\ cbrDepth' = cbrDepth - 1
  /\ cbrPc' = IF cbrDepth = 1 THEN "done" ELSE "unwind"
  /\ UNCHANGED <<cbrIn, cbrCur, cbrCount, k_cBitsForStorageType, callVars, chainVars, strVars>>

NextCountBits ==
  \/ CountBitsRequiredCall
  \/ CountBitsRequiredDescend
  \/ CountBitsRequiredReturn

SpecCountBits == Init /\ [][NextCountBits]_vars

\* C7: for every non-negative maxValue, CountBitsRequired(maxValue) is the
\* smallest width w with 2^w > maxValue (0 for maxValue = 0, and
\* 2^(w-1) <= maxValue < 2^w otherwise), and the recursive halving ends
\* after exactly w steps.
C7_CountBitsIsSmallestWidth ==
  cbrPc = "done" =>
    /\ Pow2(cbrRet) > cbrIn
    /\ cbrIn = 0 => cbrRet = 0
    /\ cbrIn > 0 => Pow2(cbrRet - 1) <= cbrIn
    /\ cbrCount = cbrRet
    /\ cbrRet = CountBitsRequired(cbrIn)

\* the call for the largest argument modelled has returned
C7_Witness ==
  /\ cbrPc = "done"
  /\ cbrIn = MaxValue
  /\ cbrRet > 0

----------------------------------------------------------------------------
(* The bit-pack chain: from k_cItemsPerBitPackMax2 the next bit pack is     *)
(* taken with GetNextBitPack until the dynamic value 0 is reached; the      *)
(* function is never handed 0 or -1 (lines 471-476).  GetNextBitPack and    *)
(* GetCountBits are also called on their own, on any count of items that    *)
(* fits a storage word.                                                     *)

BitPackChainStep ==
  /\ bitPackCur # k_cItemsPerBitPackDynamic2
  /\ bitPackCur # k_cItemsPerBitPackNone
  /\ Len(chain) <= k_cBitsForStorageType + 1
  /\ bitPackCur' = GetNextBitPack(bitPackCur)
  /\ chain' = Append(chain, GetNextBitPack(bitPackCur))
  /\ UNCHANGED <<k_cBitsForStorageType, callVars, cbrVars, strVars>>

CallGetNextBitPack ==
  /\ op = "none"
  /\ \E cItemsBitPackedPrev \in 1..k_cBitsForStorageType :
       /\ op' = "GetNextBitPack"
       /\ args' = <<cItemsBitPackedPrev>>
       /\ ret' = GetNextBitPack(cItemsBitPackedPrev)
  /\ UNCHANGED <<inter, divisors, requested>>
  /\ UNCHANGED <<k_cBitsForStorageType, chainVars, cbrVars, strVars>>

CallGetCountBits ==
  /\ op = "none"
  /\ \E cItemsBitPacked \in 1..k_cBitsForStorageType :
       /\ op' = "GetCountBits"
       /\ args' = <<cItemsBitPacked>>
       /\ ret' = GetCountBits(cItemsBitPacked)
  /\ UNCHANGED <<inter, divisors, requested>>
  /\ UNCHANGED <<k_cBitsForStorageType, chainVars, cbrVars, strVars>>

NextBitPack ==
  \/ BitPackChainStep
  \/ CallGetNextBitPack
  \/ CallGetCountBits

SpecBitPack == Init /\ [][NextBitPack]_vars

\* the bit packs the chain has visited, and those before the dynamic value
ChainValues == {chain[i] : i \in 1..Len(chain)}
ChainItems == SelectSeq(chain, LAMBDA c : c >= 1)

\* the chain has produced the bit pack 1
ChainReachedOne == 1 \in ChainValues

\* the distinct values of floor(W / k) for k in 1..W
DistinctQuotients ==
  {k_cBitsForStorageType \div k : k \in 1..k_cBitsForStorageType}

\* C8: the sequence that starts at the word width W and applies
\* next = W / (W/prev + 1) until 1 is produced visits exactly the distinct
\* values of floor(W / k) for k in 1..W, skipping none and producing no
\* other value; for W = 64 it is 64,32,21,16,12,10,9,8,7,6,5,4,3,2,1
\* (15 entries) and for W = 32 it is 32,16,10,8,6,5,4,3,2,1.
C8_ChainIsTheDistinctQuotients ==
  /\ chain[1] = k_cBitsForStorageType
  /\ \A i \in 1..Len(ChainItems) : ChainItems[i] \in DistinctQuotients
  /\ ChainReachedOne =>
       /\ {ChainItems[i] : i \in 1..Len(ChainItems)} = DistinctQuotients
       /\ k_cBitsForStorageType = 64 =>
            /\ ChainItems = <<64, 32, 21, 16, 12, 10, 9, 8, 7, 6, 5, 4, 3, 2, 1>>
            /\ Len(ChainItems) = 15
       /\ k_cBitsForStorageType = 32 =>
            ChainItems = <<32, 16, 10, 8, 6, 5, 4, 3, 2, 1>>

\* the chain of a 64 bit storage word has produced 1
C8_Witness ==
  /\ k_cBitsForStorageType = 64
  /\ bitPackCur = 1
  /\ Len(chain) = 15

\* C9: the progression GetNextBitPack generates from the word width down
\* to 1 is strictly decreasing at every step and so holds no value twice:
\* for every prev in 2..W, 1 <= GetNextBitPack(prev) < prev.
C9_ChainStrictlyDecreasing ==
  /\ \A i \in 1..(Len(chain) - 1) : chain[i + 1] < chain[i]
  /\ \A i \in 1..Len(chain) : \A j \in 1..Len(chain) :
       i # j => chain[i] # chain[j]
  /\ (op = "GetNextBitPack" /\ args[1] >= 2) => (1 <= ret /\ ret < args[1])

\* the chain has moved on from the word width, and GetNextBitPack was called
\* on the word width
C9_Witness ==
  /\ Len(chain) > 2
  /\ op = "GetNextBitPack"
  /\ args = <<k_cBitsForStorageType>>
  /\ ret < k_cBitsForStorageType

\* itemsPerWord and bitsPerItem fit the word and the division round-trips
RoundTrips(cItemsBitPacked, cBits) ==
  /\ cBits * cItemsBitPacked <= k_cBitsForStorageType
  /\ cBits > 0
  /\ k_cBitsForStorageType \div cBits = cItemsBitPacked

\* C10: for every itemsPerWord on the progression, with
\* bitsPerItem = GetCountBits(itemsPerWord) = W / itemsPerWord:
\* bitsPerItem * itemsPerWord <= W and W / bitsPerItem = itemsPerWord; a p in
\* 1..W that is not on the progression does not satisfy W / (W / p) = p; and
\* k_cItemsPerBitPackMin2 and k_cItemsPerBitPackMax2 satisfy the round trip.
C10_ProgressionRoundTrips ==
  /\ \A i \in 1..Len(ChainItems) :
       RoundTrips(ChainItems[i], GetCountBits(ChainItems[i]))
  /\ (op = "GetCountBits" /\ ChainReachedOne) =>
       /\ ret = k_cBitsForStorageType \div args[1]
       /\ args[1] \in ChainValues => RoundTrips(args[1], ret)
       /\ args[1] \notin ChainValues => k_cBitsForStorageType \div ret # args[1]
  /\ RoundTrips(k_cItemsPerBitPackMin2, GetCountBits(k_cItemsPerBitPackMin2))
  /\ RoundTrips(k_cItemsPerBitPackMax2, GetCountBits(k_cItemsPerBitPackMax2))

\* the chain is complete and GetCountBits was called on 11, which is not on
\* the progression of a 64 bit word: 64 / 11 = 5 and 64 / 5 = 12
C10_Witness ==
  /\ k_cBitsForStorageType = 64
  /\ ChainReachedOne
  /\ op = "GetCountBits"
  /\ args = <<11>>
  /\ ret = 5

----------------------------------------------------------------------------
(* The learning type predicates and GetVectorLength, EbmInternal.h:336-364. *)
(* EXPAND_BINARY_LOGITS is a macro of the build: the functions take it as   *)
(* the parameter bExpandBinaryLogits.                                       *)

k_regression == -1
k_dynamicClassification == 0

IsRegression(learningTypeOrCountTargetClasses) ==
  k_regression = learningTypeOrCountTargetClasses

IsClassification(learningTypeOrCountTargetClasses) ==
  0 <= learningTypeOrCountTargetClasses

IsBinaryClassification(bExpandBinaryLogits, learningTypeOrCountTargetClasses) ==
  IF bExpandBinaryLogits THEN FALSE ELSE 2 = learningTypeOrCountTargetClasses

\* multiclass as every descriptor that is not binary
IsMulticlassNotBinary(bExpandBinaryLogits, learningTypeOrCountTargetClasses) ==
  ~IsBinaryClassification(bExpandBinaryLogits, learningTypeOrCountTargetClasses)

IsMulticlass(bExpandBinaryLogits, learningTypeOrCountTargetClasses) ==
  /\ IsClassification(learningTypeOrCountTargetClasses)
  /\ ~IsBinaryClassification(bExpandBinaryLogits, learningTypeOrCountTargetClasses)

\* the vector length with the thresholds of the two settings exchanged
GetVectorLengthSwapped(bExpandBinaryLogits, learningTypeOrCountTargetClasses) ==
  IF bExpandBinaryLogits
    THEN IF learningTypeOrCountTargetClasses <= 2
           THEN 1 ELSE learningTypeOrCountTargetClasses
    ELSE IF learningTypeOrCountTargetClasses <= 1
           THEN 1 ELSE learningTypeOrCountTargetClasses

\* lines 356-364; the cast to size_t keeps a descriptor above 1
GetVectorLength(bExpandBinaryLogits, learningTypeOrCountTargetClasses) ==
  IF bExpandBinaryLogits
    THEN IF learningTypeOrCountTargetClasses <= 1
           THEN 1 ELSE learningTypeOrCountTargetClasses
    ELSE IF learningTypeOrCountTargetClasses <= 2
           THEN 1 ELSE learningTypeOrCountTargetClasses

\* the largest count of target classes modelled
MaxClasses == 10

\* the task descriptors: regression, dynamic classification, class counts
TaskDescriptors == k_regression..MaxClasses

CallGetVectorLength ==
  /\ op = "none"
  /\ \E bExpandBinaryLogits \in BOOLEAN, d \in TaskDescriptors :
       /\ op' = "GetVectorLength"
       /\ args' = <<bExpandBinaryLogits, d>>
       /\ ret' = GetVectorLength(bExpandBinaryLogits, d)
  /\ UNCHANGED <<inter, divisors, requested>>
  /\ UNCHANGED <<k_cBitsForStorageType, chainVars, cbrVars, strVars>>

\* the three predicates called on one descriptor
CallLearningType ==
  /\ op = "none"
  /\ \E bExpandBinaryLogits \in BOOLEAN, d \in TaskDescriptors :
       /\ op' = "LearningType"
       /\ args' = <<bExpandBinaryLogits, d>>
       /\ ret' = [isRegression |-> IsRegression(d),
                  isBinaryClassification |-> IsBinaryClassification(bExpandBinaryLogits, d),
                  isMulticlass |-> IsMulticlass(bExpandBinaryLogits, d)]
  /\ UNCHANGED <<inter, divisors, requested>>
  /\ UNCHANGED <<k_cBitsForStorageType, chainVars, cbrVars, strVars>>

NextTask ==
  \/ CallGetVectorLength
  \/ CallLearningType

SpecTask == Init /\ [][NextTask]_vars

\* C11: GetVectorLength(d) is 1 for regression (d = -1); for two classes it
\* is 1 under the default policy and 2 when EXPAND_BINARY_LOGITS is defined;
\* for every class count N >= 3 it is N under both policies; and it is at
\* least 1 for every descriptor.
C11_VectorLength ==
  op = "GetVectorLength" =>
    LET bExpandBinaryLogits == args[1]
        d == args[2]
    IN  /\ d = 0 - 1 => ret = 1
        /\ (d = 2 /\ ~bExpandBinaryLogits) => ret = 1
        /\ (d = 2 /\ bExpandBinaryLogits) => ret = 2
        /\ d >= 3 => ret = d
        /\ ret >= 1

\* the vector length of two classes with the logits expanded
C11_Witness ==
  /\ op = "GetVectorLength"
  /\ args = <<TRUE, 2>>
  /\ ret = 2

\* the number of the three predicates that hold in the recorded call
CountTrue ==
  (IF ret.isRegression THEN 1 ELSE 0)
  + (IF ret.isBinaryClassification THEN 1 ELSE 0)
  + (IF ret.isMulticlass THEN 1 ELSE 0)

\* C12: for every task descriptor d (-1, 0 or a positive class count)
\* exactly one of IsRegression(d), IsBinaryClassification(d),
\* IsMulticlass(d) is true, under both policies; and whenever IsMulticlass(d)
\* holds for a positive d, GetVectorLength(d) = d.
C12_ExactlyOneLearningType ==
  op = "LearningType" =>
    /\ CountTrue = 1
    /\ (ret.isMulticlass /\ args[2] > 0) => GetVectorLength(args[1], args[2]) = args[2]

\* two classes with the logits expanded count as multiclass
C12_Witness ==
  /\ op = "LearningType"
  /\ args = <<TRUE, 2>>
  /\ ret.isMulticlass
  /\ ~ret.isBinaryClassification

----------------------------------------------------------------------------
(* The widths and the dimension limit, checked under SpecCountBits *)

\* C16: k_cBitsForSizeT, computed as CountBitsRequired(max size_t) for a
\* size_t of W bits, equals W; k_cDimensionsMax = W - 1 is strictly less
\* than W; and the compile-time-optimized dimension count (2) lies in
\* 1..k_cDimensionsMax.
C16_DimensionsMaxIsWidthMinusOne ==
  /\ k_cBitsForSizeT \in StorageTypeBits
  /\ \A cBits \in StorageTypeBits : CountBitsRequiredPositiveMax(cBits) = cBits
  /\ cbrPc = "done" =>
       \A w \in 0..CountBitsRequired(MaxValue) : cbrIn = Pow2(w) - 1 => cbrRet = w
  /\ k_cDimensionsMax = k_cBitsForSizeT - 1
  /\ k_cDimensionsMax < k_cBitsForSizeT
  /\ 1 <= k_cCompilerOptimizedCountDimensionsMax
  /\ k_cCompilerOptimizedCountDimensionsMax <= k_cDimensionsMax

\* a 64 bit size_t, and the recursion returned 5 for the 5 bit maximum 31
C16_Witness ==
  /\ k_cBitsForSizeT = 64
  /\ k_cDimensionsMax = 63
  /\ cbrPc = "done"
  /\ cbrIn = 31
  /\ cbrRet = 5

----------------------------------------------------------------------------
(* The two steppers side by side *)

CallGetNextCountItemsBitPacked ==
  /\ op = "none"
  /\ \E cItemsBitPackedPrev \in 0..k_cBitsForStorageType :
       /\ op' = "GetNextCountItemsBitPacked"
       /\ args' = <<cItemsBitPackedPrev>>
       /\ ret' = GetNextCountItemsBitPacked(cItemsBitPackedPrev)
       /\ divisors' = GetNextCountItemsBitPackedEval(cItemsBitPackedPrev).divisors
  /\ UNCHANGED <<inter, requested>>
  /\ UNCHANGED <<k_cBitsForStorageType, chainVars, cbrVars, strVars>>

NextSteppers ==
  \/ BitPackChainStep
  \/ CallGetNextBitPack
  \/ CallGetNextCountItemsBitPacked

SpecSteppers == Init /\ [][NextSteppers]_vars

\* C19: GetNextCountItemsBitPacked (size_t, minimum constant 0) and
\* GetNextBitPack (ptrdiff_t, minimum constant 1) return the same value for
\* every prev in 1..W, prev = 1 included, where both return the dynamic
\* value 0; and GetNextCountItemsBitPacked(0) returns 0 without dividing by
\* zero.
C19_SteppersAgree ==
  /\ op = "GetNextCountItemsBitPacked" =>
       /\ args[1] >= 1 => ret = GetNextBitPack(args[1])
       /\ args[1] = 1 => ret = 0
       /\ args[1] = 0 => ret = 0 /\ divisors = <<>>
       /\ \A i \in 1..Len(divisors) : divisors[i] # 0
  /\ op = "GetNextBitPack" => ret = GetNextCountItemsBitPacked(args[1])

\* the stepper kept under TODO_remove_this called on 1: it divides W by
\* W + 1
C19_Witness ==
  /\ op = "GetNextCountItemsBitPacked"
  /\ args = <<1>>
  /\ ret = 0
  /\ divisors = <<1, k_cBitsForStorageType + 1>>

----------------------------------------------------------------------------
(* The chain runs to its end: the step is taken as long as it is enabled *)

SpecBitPackFair == Init /\ [][NextBitPack]_vars /\ WF_vars(BitPackChainStep)

\* what holds of the chain at every moment: GetNextBitPack has been applied
\* to every entry but the last, and none of those is 0 or -1; no entry is
\* -1; the entry after k_cItemsPerBitPackMin2 is the dynamic value 0, and 0
\* is entered from k_cItemsPerBitPackMin2 only
ChainIsSafe ==
  /\ chain[1] = k_cItemsPerBitPackMax2
  /\ \A i \in 1..Len(chain) : chain[i] # k_cItemsPerBitPackNone
  /\ \A i \in 1..(Len(chain) - 1) :
       /\ chain[i] # k_cItemsPerBitPackDynamic2
       /\ chain[i] # k_cItemsPerBitPackNone
       /\ chain[i] = k_cItemsPerBitPackMin2 <=> chain[i + 1] = k_cItemsPerBitPackDynamic2
  /\ op = "GetNextBitPack" => ret # k_cItemsPerBitPackNone

\* the chain has reached the dynamic value 0, through k_cItemsPerBitPackMin2
ChainEnded ==
  /\ bitPackCur = k_cItemsPerBitPackDynamic2
  /\ Len(chain) >= 2
  /\ chain[Len(chain) - 1] = k_cItemsPerBitPackMin2

\* C17: from k_cItemsPerBitPackMax2 the chain of GetNextBitPack ends: after
\* finitely many steps it reaches k_cItemsPerBitPackMin2 (1), from which the
\* next value is the dynamic value 0; along the chain GetNextBitPack is
\* never applied to 0 or to -1, and it never returns -1.
C17_ChainTerminates == []ChainIsSafe /\ <>ChainEnded

\* the chain of a 64 bit word at its end, 16 entries from 64 to 0
C17_Witness ==
  /\ k_cBitsForStorageType = 64
  /\ ChainEnded
  /\ Len(chain) = 16

----------------------------------------------------------------------------
(* Packing items into a storage word.  The header gives the geometry        *)
(* (k_cBitsForStorageType, GetCountBits); the writing and the reading of a  *)
(* slot follow the description of the storage word: item i of a word takes  *)
(* the bits i * cBitsPerItem up to (i + 1) * cBitsPerItem - 1, it is read   *)
(* by a shift and a mask.  A word and a code are written as their binary    *)
(* digits, lowest digit first.                                              *)

\* the word after the code is written into slot iSlot: the digits of the
\* code shifted left by iSlot * cBitsPerItem replace the digits of the slot;
\* digits shifted beyond the word are lost
PackItem(word, cBitsPerItem, iSlot, code) ==
  [b \in 1..Len(word) |->
     IF iSlot * cBitsPerItem < b /\ b <= (iSlot + 1) * cBitsPerItem
       THEN code[b - iSlot * cBitsPerItem]
       ELSE word[b]]

\* slot iSlot of the word: the word shifted right by iSlot * cBitsPerItem
\* (zeros enter at the top) and masked to cBitsPerItem digits
UnpackItem(word, cBitsPerItem, iSlot) ==
  [b \in 1..cBitsPerItem |->
     IF iSlot * cBitsPerItem + b <= Len(word)
       THEN word[iSlot * cBitsPerItem + b]
       ELSE 0]

\* the widest code of which every value is tried
MaxCodeBits == 4

\* the codes tried for items of cBitsPerItem bits: all of them up to
\* MaxCodeBits bits; for wider items zero, the maximum, 1 and the top bit
Codes(cBitsPerItem) ==
  IF cBitsPerItem <= MaxCodeBits
    THEN [1..cBitsPerItem -> {0, 1}]
    ELSE {[b \in 1..cBitsPerItem |-> 0],
          [b \in 1..cBitsPerItem |-> 1],
          [b \in 1..cBitsPerItem |-> IF b = 1 THEN 1 ELSE 0],
          [b \in 1..cBitsPerItem |-> IF b = cBitsPerItem THEN 1 ELSE 0]}

\* the contents of the word before the write: all zeros, all ones,
\* alternating digits
WordsBefore ==
  {[b \in 1..k_cBitsForStorageType |-> 0],
   [b \in 1..k_cBitsForStorageType |-> 1],
   [b \in 1..k_cBitsForStorageType |-> b % 2]}

\* a code is written into a slot of a word that holds as many items as the
\* bit pack the chain stands at, and the slot is read back
CallPackUnpack ==
  /\ op = "none"
  /\ bitPackCur >= k_cItemsPerBitPackMin2
  /\ \E iSlot \in 0..(bitPackCur - 1), wordBefore \in WordsBefore :
       \E code \in Codes(GetCountBits(bitPackCur)) :
         LET wordAfter == PackItem(wordBefore, GetCountBits(bitPackCur), iSlot, code)
         IN  /\ op' = "PackUnpack"
             /\ args' = <<bitPackCur, iSlot, code, wordBefore>>
             /\ ret' = [word |-> wordAfter,
                        item |-> UnpackItem(wordAfter, GetCountBits(bitPackCur), iSlot)]
  /\ UNCHANGED <<inter, divisors, requested>>
  /\ UNCHANGED <<k_cBitsForStorageType, chainVars, cbrVars, strVars>>

NextPack ==
  \/ BitPackChainStep
  \/ CallPackUnpack

SpecPack == Init /\ [][NextPack]_vars

\* C13: for every progression value itemsPerWord, with
\* bitsPerItem = GetCountBits(itemsPerWord), every slot i < itemsPerWord and
\* every code in [0, 2^bitsPerItem): writing the code into the bits
\* [i*bitsPerItem, (i+1)*bitsPerItem) of a storage word and extracting slot
\* i by shift and mask returns the code, and the codes in all other slots of
\* the word are unchanged.
C13_PackUnpackRoundTrip ==
  op = "PackUnpack" =>
    LET cItemsBitPacked == args[1]
        iSlot == args[2]
        code == args[3]
        wordBefore == args[4]
        cBitsPerItem == GetCountBits(cItemsBitPacked)
    IN  /\ Len(code) = cBitsPerItem
        /\ ret.item = code
        /\ \A j \in 0..(cItemsBitPacked - 1) :
             j # iSlot =>
               UnpackItem(ret.word, cBitsPerItem, j) = UnpackItem(wordBefore, cBitsPerItem, j)

\* the code 7 written into the last of the 21 slots of three bits of a 64
\* bit word of zeros, and read back
C13_Witness ==
  /\ k_cBitsForStorageType = 64
  /\ op = "PackUnpack"
  /\ args[1] = 21
  /\ args[2] = 20
  /\ args[3] = <<1, 1, 1>>
  /\ args[4] = [b \in 1..64 |-> 0]
  /\ ret.item = <<1, 1, 1>>

----------------------------------------------------------------------------
(* Strings.  A C string is the sequence of its characters with the          *)
(* terminating NUL as the last element; a pointer into it is an index,      *)
(* the string itself is index 1, and nullptr is 0.                          *)

nullptr == 0

\* the whitespace test without the lower end of the range: NUL passes
IsWhitespaceNoLowerEnd(c) == 32 = c \/ c <= 13

\* the whitespace test with the lower end 0x9 left out
IsWhitespaceNoTab(c) == 32 = c \/ (9 < c /\ c <= 13)

\* 0x20 == c || 0x9 <= c && c <= 0xd
IsWhitespace(c) == 32 = c \/ (9 <= c /\ c <= 13)

RECURSIVE SkipWhitespace(_, _)
SkipWhitespace(s, i) ==
  IF IsWhitespace(s[i]) THEN SkipWhitespace(s, i + 1) ELSE i

\* if('A' <= c && c <= 'Z') c += 'a' - 'A'
FoldCase(c) == IF 65 <= c /\ c <= 90 THEN c + (97 - 65) ELSE c

\* the comparison loop with the fold of labelChar left out
RECURSIVE CompareLabelFoldsMainOnly(_, _, _, _)
CompareLabelFoldsMainOnly(sMain, iMain, sLabel, iLabel) ==
  IF 0 = sLabel[iLabel]
    THEN iMain
    ELSE IF FoldCase(sMain[iMain]) # sLabel[iLabel]
           THEN nullptr
           ELSE CompareLabelFoldsMainOnly(sMain, iMain + 1, sLabel, iLabel + 1)

\* the comparison loop: iMain after the label, nullptr at the first
\* character that differs
RECURSIVE CompareLabel(_, _, _, _)
CompareLabel(sMain, iMain, sLabel, iLabel) ==
  IF 0 = sLabel[iLabel]
    THEN iMain
    ELSE IF FoldCase(sMain[iMain]) # FoldCase(sLabel[iLabel])
           THEN nullptr
           ELSE CompareLabel(sMain, iMain + 1, sLabel, iLabel + 1)

IsStringEqualsCaseInsensitive(sMain, sLabel) ==
  LET iAfterLabel == CompareLabel(sMain, SkipWhitespace(sMain, 1), sLabel, 1)
  IN  IF nullptr = iAfterLabel THEN nullptr ELSE SkipWhitespace(sMain, iAfterLabel)

\* the longest main string and the longest label, NUL not counted
MaxMainLen == 3
MaxLabelLen == 2

\* TAB, space, '@', 'A', '`', 'a': whitespace, a letter in both cases and
\* the characters next to the letters, which are 32 apart as well
MatchChars == {9, 32, 64, 65, 96, 97}

CStrings(chars, maxLen) ==
  {Append(t, 0) : t \in UNION {[1..n -> chars] : n \in 0..maxLen}}

CallIsStringEqualsCaseInsensitive ==
  /\ op = "none"
  /\ \E sMain \in CStrings(MatchChars, MaxMainLen), sLabel \in CStrings(MatchChars, MaxLabelLen) :
       /\ op' = "IsStringEqualsCaseInsensitive"
       /\ args' = <<sMain, sLabel>>
       /\ ret' = IsStringEqualsCaseInsensitive(sMain, sLabel)
  /\ UNCHANGED <<inter, divisors, requested>>
  /\ UNCHANGED <<k_cBitsForStorageType, chainVars, cbrVars, strVars>>

NextMatch == CallIsStringEqualsCaseInsensitive

SpecMatch == Init /\ [][NextMatch]_vars

\* an ASCII letter in the other case, any other character as it is
OtherCase(c) ==
  IF 65 <= c /\ c <= 90 THEN c + 32
  ELSE IF 97 <= c /\ c <= 122 THEN c - 32
  ELSE c

\* the strings that differ from s in the case of some of its letters
CaseVariants(s) ==
  {[i \in 1..Len(s) |-> IF i \in S THEN OtherCase(s[i]) ELSE s[i]] : S \in SUBSET (1..Len(s))}

\* C14: the match is case-insensitive: changing ASCII letters of sMain or
\* of sLabel between upper and lower case changes neither the match / no
\* match outcome nor the returned offset into sMain.
C14_CaseChangeKeepsResult ==
  op = "IsStringEqualsCaseInsensitive" =>
    \A sMain \in CaseVariants(args[1]), sLabel \in CaseVariants(args[2]) :
      IsStringEqualsCaseInsensitive(sMain, sLabel) = ret

\* " a" matches the label "A" and the position after it is returned
C14_Witness ==
  /\ op = "IsStringEqualsCaseInsensitive"
  /\ args = << <<32, 97, 0>>, <<65, 0>> >>
  /\ ret = 3

\* space and 0x09..0x0d
WhitespaceChars == {32} \cup (9..13)

\* the first position at or after i of s that holds no whitespace
FirstNonWhitespace(s, i) ==
  CHOOSE n \in i..Len(s) :
    /\ s[n] \notin WhitespaceChars
    /\ \A k \in i..(n - 1) : s[k] \in WhitespaceChars

\* equal, or the same ASCII letter in the two cases
EqualUpToCase(a, b) ==
  \/ a = b
  \/ /\ (65 <= a /\ a <= 90) \/ (97 <= a /\ a <= 122)
     /\ (65 <= b /\ b <= 90) \/ (97 <= b /\ b <= 122)
     /\ (a - b = 32 \/ b - a = 32)

\* the characters of sMain from position i on equal all the characters of
\* sLabel up to case; sMain may not end before sLabel does
LabelFollows(sMain, i, sLabel) ==
  \A k \in 1..(Len(sLabel) - 1) :
    /\ i + k - 1 < Len(sMain)
    /\ EqualUpToCase(sMain[i + k - 1], sLabel[k])

\* C18: IsStringEqualsCaseInsensitive returns a position if and only if,
\* after the leading whitespace of sMain, the next characters of sMain
\* equal all the characters of sLabel up to ASCII case; the position is
\* then the first character of sMain after the matched text that is not
\* whitespace; on a mismatch, sMain ending before sLabel included, the
\* result is null.
C18_MatchAfterWhitespace ==
  op = "IsStringEqualsCaseInsensitive" =>
    LET sMain == args[1]
        sLabel == args[2]
        iStart == FirstNonWhitespace(sMain, 1)
    IN  IF LabelFollows(sMain, iStart, sLabel)
          THEN ret = FirstNonWhitespace(sMain, iStart + Len(sLabel) - 1)
          ELSE ret = nullptr

\* "\tA " matches the label "a"; the position returned is the NUL after
\* the trailing space
C18_Witness ==
  /\ op = "IsStringEqualsCaseInsensitive"
  /\ args = << <<9, 65, 32, 0>>, <<97, 0>> >>
  /\ ret = 4

\* "a" ends before the label "aa" does: no match
C18_WitnessMainEndsEarly ==
  /\ op = "IsStringEqualsCaseInsensitive"
  /\ args = << <<97, 0>>, <<97, 65, 0>> >>
  /\ ret = nullptr

----------------------------------------------------------------------------
(* ConvertStringToFloat.  std::strtod is the library's: as the standard     *)
(* quoted at lines 573-576 has it, it skips the leading white space, takes  *)
(* the longest numeral that follows and sets the end pointer after it, or   *)
(* to the start of the string when there is no numeral.  The numerals of    *)
(* the model are the decimal integers with an optional sign.                *)

\* isspace in the "C" locale
isspace(c) == c \in {32, 9, 10, 11, 12, 13}

isdigit(c) == 48 <= c /\ c <= 57

RECURSIVE SkipSpace(_, _)
SkipSpace(s, i) == IF isspace(s[i]) THEN SkipSpace(s, i + 1) ELSE i

RECURSIVE SkipDigits(_, _)
SkipDigits(s, i) == IF isdigit(s[i]) THEN SkipDigits(s, i + 1) ELSE i

\* the value of the digits of s from position i up to position iEnd - 1
RECURSIVE DigitsValue(_, _, _)
DigitsValue(s, i, iEnd) ==
  IF iEnd <= i THEN 0 ELSE 10 * DigitsValue(s, i, iEnd - 1) + (s[iEnd - 1] - 48)

\* the value and the end pointer of std::strtod(s, &sNext)
strtod(s) ==
  LET iSign == SkipSpace(s, 1)
      iDigits == IF s[iSign] \in {43, 45} THEN iSign + 1 ELSE iSign
      iEnd == SkipDigits(s, iDigits)
      magnitude == DigitsValue(s, iDigits, iEnd)
  IN  IF iEnd = iDigits
        THEN [ret |-> 0, sNext |-> 1]
        ELSE [ret |-> IF s[iSign] = 45 THEN 0 - magnitude ELSE magnitude, sNext |-> iEnd]

\* the result is stored before the end pointer is looked at
ConvertStringToFloatStoresAlways(s, pResultOut) ==
  LET scan == strtod(s)
  IN  IF 1 = scan.sNext \/ nullptr = scan.sNext
        THEN [ret |-> nullptr, pResultOut |-> scan.ret]
        ELSE [ret |-> SkipWhitespace(s, scan.sNext), pResultOut |-> scan.ret]

\* pResultOut is what *pResultOut holds before the call; the result is the
\* returned pointer and what *pResultOut holds after the call
ConvertStringToFloat(s, pResultOut) ==
  LET scan == strtod(s)
  IN  IF 1 = scan.sNext \/ nullptr = scan.sNext
        THEN [ret |-> nullptr, pResultOut |-> pResultOut]
        ELSE [ret |-> SkipWhitespace(s, scan.sNext), pResultOut |-> scan.ret]

\* the longest string handed to ConvertStringToFloat, NUL not counted
MaxNumberLen == 4

\* TAB, space, '-', '1', '2', 'a'
NumberChars == {9, 32, 45, 49, 50, 97}

\* what *pResultOut may hold before the call
ResultsBefore == {-1, 7}

CallConvertStringToFloat ==
  /\ op = "none"
  /\ \E s \in CStrings(NumberChars, MaxNumberLen), pResultOut \in ResultsBefore :
       /\ op' = "ConvertStringToFloat"
       /\ args' = <<s, pResultOut>>
       /\ ret' = ConvertStringToFloat(s, pResultOut)
  /\ UNCHANGED <<inter, divisors, requested>>
  /\ UNCHANGED <<k_cBitsForStorageType, chainVars, cbrVars, strVars>>

NextNumber == CallConvertStringToFloat

SpecNumber == Init /\ [][NextNumber]_vars

\* C15: when the number scanner consumes no character of s, the string
\* being empty or no number, ConvertStringToFloat returns null and leaves
\* *pResultOut as it was; when it consumes a number, the parsed value is
\* stored in *pResultOut and the position returned is the first character
\* after the number that is not whitespace, so that the whitespace before
\* and after the number is skipped.
C15_ConvertStringToFloat ==
  op = "ConvertStringToFloat" =>
    LET s == args[1]
        pResultOut == args[2]
        scan == strtod(s)
        iNumber == FirstNonWhitespace(s, 1)
    IN  IF scan.sNext = 1
          THEN /\ ret.ret = nullptr
               /\ ret.pResultOut = pResultOut
          ELSE /\ ret.pResultOut = scan.ret
               /\ iNumber < scan.sNext
               /\ \A k \in iNumber..(scan.sNext - 1) : s[k] \in {43, 45} \cup (48..57)
               /\ ret.ret = FirstNonWhitespace(s, scan.sNext)

\* " -1 " with 7 in *pResultOut: -1 is stored and the position returned is
\* the NUL after the trailing space
C15_Witness ==
  /\ op = "ConvertStringToFloat"
  /\ args = << <<32, 45, 49, 32, 0>>, 7 >>
  /\ ret = [ret |-> 5, pResultOut |-> -1]

\* " -" has no number: null is returned, 7 stays in *pResultOut
C15_WitnessNoNumber ==
  /\ op = "ConvertStringToFloat"
  /\ args = << <<32, 45, 0>>, 7 >>
  /\ ret = [ret |-> nullptr, pResultOut |-> 7]

----------------------------------------------------------------------------
(* The string functions step by step.  str holds the function that runs     *)
(* (fn), its position (pc), the two strings, the pointers sMain and sLabel  *)
(* as the indexes iMain and iLabel, the characters last read, the result,   *)
(* and the highest index read of each string.  SkipWhitespace keeps its     *)
(* string s in sMain and oneChar in mainChar.  Each step is one evaluation  *)
(* of a loop condition with the loop body or the exit that follows it.      *)

\* TAB, space, 'A', 'a'
StepChars == {9, 32, 65, 97}

\* *s for the pointer i into s: the character there, and any character when
\* the pointer is beyond the terminating NUL
ReadChar(s, i) == IF i <= Len(s) THEN {s[i]} ELSE StepChars \cup {0}

\* no character beyond a terminating NUL has been read
NoReadBeyondNul ==
  /\ str.readMain <= Len(str.sMain)
  /\ str.readLabel <= Len(str.sLabel)

\* lines 595 and 557: the call and the first read
StrCallIsStringEqualsCaseInsensitive ==
  /\ str.pc = "idle"
  /\ \E sMain \in CStrings(StepChars, MaxMainLen), sLabel \in CStrings(StepChars, MaxLabelLen) :
       str' = [StrIdle EXCEPT !.pc = "skipLeading",
                              !.fn = "IsStringEqualsCaseInsensitive",
                              !.sMain = sMain, !.sLabel = sLabel,
                              !.iMain = 1, !.mainChar = sMain[1], !.readMain = 1]
  /\ UNCHANGED <<k_cBitsForStorageType, callVars, chainVars, cbrVars>>

StrCallSkipWhitespace ==
  /\ str.pc = "idle"
  /\ \E s \in CStrings(StepChars, MaxMainLen) :
       str' = [StrIdle EXCEPT !.pc = "skipWhitespace",
                              !.fn = "SkipWhitespace",
                              !.sMain = s,
                              !.iMain = 1, !.mainChar = s[1], !.readMain = 1]
  /\ UNCHANGED <<k_cBitsForStorageType, callVars, chainVars, cbrVars>>

\* ++sMain; mainChar = *sMain
StrAdvanceMain ==
  \E c \in ReadChar(str.sMain, str.iMain + 1) :
    str' = [str EXCEPT !.iMain = @ + 1, !.mainChar = c, !.readMain = str.iMain + 1]

\* lines 596-602
StrSkipLeadingStep ==
  /\ str.pc = "skipLeading"
  /\ NoReadBeyondNul
  /\ IF IsWhitespace(str.mainChar)
       THEN StrAdvanceMain
       ELSE str' = [str EXCEPT !.pc = "compare", !.iLabel = 1,
                               !.labelChar = str.sLabel[1], !.readLabel = 1]
  /\ UNCHANGED <<k_cBitsForStorageType, callVars, chainVars, cbrVars>>

\* lines 603-620
StrCompareStep ==
  /\ str.pc = "compare"
  /\ NoReadBeyondNul
  /\ IF 0 = str.labelChar
       THEN str' = [str EXCEPT !.pc = "skipTrailing"]
       ELSE IF FoldCase(str.mainChar) # FoldCase(str.labelChar)
              THEN str' = [str EXCEPT !.pc = "done", !.ret = nullptr]
              ELSE \E cMain \in ReadChar(str.sMain, str.iMain + 1),
                      cLabel \in ReadChar(str.sLabel, str.iLabel + 1) :
                     str' = [str EXCEPT !.iMain = @ + 1, !.mainChar = cMain,
                                        !.readMain = str.iMain + 1,
                                        !.iLabel = @ + 1, !.labelChar = cLabel,
                                        !.readLabel = str.iLabel + 1]
  /\ UNCHANGED <<k_cBitsForStorageType, callVars, chainVars, cbrVars>>

\* lines 621-626
StrSkipTrailingStep ==
  /\ str.pc = "skipTrailing"
  /\ NoReadBeyondNul
  /\ IF IsWhitespace(str.mainChar)
       THEN StrAdvanceMain
       ELSE str' = [str EXCEPT !.pc = "done", !.ret = str.iMain]
  /\ UNCHANGED <<k_cBitsForStorageType, callVars, chainVars, cbrVars>>

\* lines 558-563
StrSkipWhitespaceStep ==
  /\ str.pc = "skipWhitespace"
  /\ NoReadBeyondNul
  /\ IF IsWhitespace(str.mainChar)
       THEN StrAdvanceMain
       ELSE str' = [str EXCEPT !.pc = "done", !.ret = str.iMain]
  /\ UNCHANGED <<k_cBitsForStorageType, callVars, chainVars, cbrVars>>

\* the function that was called runs on
StrStep ==
  \/ StrSkipLeadingStep
  \/ StrCompareStep
  \/ StrSkipTrailingStep
  \/ StrSkipWhitespaceStep

NextStr ==
  \/ StrCallIsStringEqualsCaseInsensitive
  \/ StrCallSkipWhitespace
  \/ StrSkipLeadingStep
  \/ StrCompareStep
  \/ StrSkipTrailingStep
  \/ StrSkipWhitespaceStep

SpecStr == Init /\ [][NextStr]_vars /\ WF_vars(StrStep)

\* what has returned is what the function computes
StrReturnsTheResult ==
  str.pc = "done" =>
    /\ str.fn = "IsStringEqualsCaseInsensitive" =>
         str.ret = IsStringEqualsCaseInsensitive(str.sMain, str.sLabel)
    /\ str.fn = "SkipWhitespace" => str.ret = SkipWhitespace(str.sMain, 1)

\* when sMain has ended and sLabel has not, the comparison has returned
\* null and the NUL of sMain is the last character it read
MainEndedEarlyIsNull ==
  /\ str.pc = "done"
  /\ str.fn = "IsStringEqualsCaseInsensitive"
  /\ str.sMain[str.iMain] = 0
  /\ str.sLabel[str.iLabel] # 0
  => /\ str.ret = nullptr
     /\ str.readMain = str.iMain
     /\ str.readLabel = str.iLabel

StrIsSafe ==
  /\ NoReadBeyondNul
  /\ StrReturnsTheResult
  /\ MainEndedEarlyIsNull

\* C20: for NUL-terminated sMain and sLabel, IsStringEqualsCaseInsensitive
\* and SkipWhitespace terminate and never read a character of sMain or of
\* sLabel beyond its terminating NUL: the whitespace loops stop at the NUL,
\* and the comparison loop returns null as soon as sMain ends while sLabel
\* still has characters.
C20_StringsTerminateWithinNul ==
  /\ []StrIsSafe
  /\ (str.pc # "idle") ~> (str.pc = "done")

\* " a" against the label "aA": sMain ends at the second character of the
\* label, null is returned and nothing after the NUL of sMain was read
C20_Witness ==
  /\ str.pc = "done"
  /\ str.fn = "IsStringEqualsCaseInsensitive"
  /\ str.sMain = <<32, 97, 0>>
  /\ str.sLabel = <<97, 65, 0>>
  /\ str.ret = nullptr
  /\ str.readMain = 3
  /\ str.readLabel = 2

====
